---- MODULE Spec2Model ----
(***************************************************************************)
(* Terrain metrics calculator of get_topography.py:                        *)
(* haversine_distance and analyze_and_export_metrics.                      *)
(*                                                                         *)
(* Numbers.  The program computes in floating point with pandas' missing   *)
(* value NaN.  The model computes in exact rational arithmetic: a number   *)
(* is a record [k, n, d], k = "num" for the rational n/d in lowest terms   *)
(* (d > 0), k = "nan" for NaN, and k = "atan" for the real number          *)
(* degrees(arctan(n/d)) with n/d # 0, which has no rational value and is   *)
(* kept symbolic (arctan is injective, so equality of the symbols is       *)
(* equality of the angles).  Rounding of floating point is not modelled.   *)
(*                                                                         *)
(* Units.  Every length is in millimetres.  A latitude or longitude is     *)
(* given as the arc it subtends on the sphere of radius earth_radius_m, in *)
(* millimetres, so that the threshold of 0.01 m is the integer 10.         *)
(* The tables of the model lie on the equator (y = 0) or on the meridian   *)
(* x = 0, where the haversine formula is exactly the arc |delta|.          *)
(***************************************************************************)
EXTENDS Integers, Sequences, FiniteSets, TLC

\* ------------------------------------------------------------------ bounds
MaxRows == 3
MaxElev == 2

\* ----------------------------------------------------------------- numbers
RECURSIVE GCD(_, _)
GCD(a, b) == IF b = 0 THEN a ELSE GCD(b, a % b)

AbsInt(i) == IF i < 0 THEN -i ELSE i

\* the rational n/d (d # 0) in lowest terms
Num(n, d) ==
    LET g == GCD(AbsInt(n), AbsInt(d))
        s == IF d < 0 THEN -1 ELSE 1
    IN  [k |-> "num", n |-> (s * n) \div g, d |-> (s * d) \div g]

NaN == [k |-> "nan", n |-> 0, d |-> 0]
Zero == Num(0, 1)
Cell(v) == Num(v, 1)

isna(v) == v.k = "nan"

Sub(a, b) == IF isna(a) \/ isna(b) THEN NaN ELSE Num(a.n * b.d - b.n * a.d, a.d * b.d)
Add(a, b) == IF isna(a) \/ isna(b) THEN NaN ELSE Num(a.n * b.d + b.n * a.d, a.d * b.d)
\* float division: x/0 is inf or NaN; the program only divides by distances
\* that passed the filter, so the model gives NaN to a division by zero
Div(a, b) == IF isna(a) \/ isna(b) \/ b.n = 0 THEN NaN ELSE Num(a.n * b.d, a.d * b.n)
Times(a, i) == IF isna(a) THEN NaN ELSE Num(a.n * i, a.d)
Abs(a) == IF isna(a) THEN NaN ELSE Num(AbsInt(a.n), a.d)
\* comparisons with NaN are False
Less(a, b) == ~isna(a) /\ ~isna(b) /\ a.n * b.d < b.n * a.d
GreaterEq(a, b) == ~isna(a) /\ ~isna(b) /\ a.n * b.d >= b.n * a.d

\* ------------------------------------------------- pandas Series reductions
\* skipna=True: the reductions run over the non-NaN values of the column
dropna(s) == SelectSeq(s, LAMBDA v : ~isna(v))

RECURSIVE SeqSum(_)
SeqSum(s) == IF s = <<>> THEN Zero ELSE Add(Head(s), SeqSum(Tail(s)))

RECURSIVE SeqMax(_)
SeqMax(s) ==
    IF Len(s) = 1 THEN Head(s)
    ELSE LET m == SeqMax(Tail(s)) IN IF Less(Head(s), m) THEN m ELSE Head(s)

SeriesMax(s) == LET v == dropna(s) IN IF v = <<>> THEN NaN ELSE SeqMax(v)

SeriesMean(s) ==
    LET v == dropna(s) IN IF v = <<>> THEN NaN ELSE Div(SeqSum(v), Cell(Len(v)))

\* mutant: the two middle values of an even count are added, not averaged
SeriesMedian_NoHalving(s) ==
    LET v == SortSeq(dropna(s), Less)
        n == Len(v)
    IN  IF n = 0 THEN NaN
        ELSE IF n % 2 = 1 THEN v[(n + 1) \div 2]
        ELSE Add(v[n \div 2], v[n \div 2 + 1])

SeriesMedian(s) ==
    LET v == SortSeq(dropna(s), Less)
        n == Len(v)
    IN  IF n = 0 THEN NaN
        ELSE IF n % 2 = 1 THEN v[(n + 1) \div 2]
        ELSE Div(Add(v[n \div 2], v[n \div 2 + 1]), Cell(2))

\* ------------------------------------------------------ haversine_distance
\* np.radians rescales an angle by pi/180 and keeps NaN.  A model value
\* denotes the angle itself (by its arc on the reference sphere), whatever the
\* unit it is written in, so the rescaled number denotes the same value.
radians(v) == IF isna(v) THEN NaN ELSE v

\* mutant: the longitudes are added where the code subtracts them
haversine_distance_SumLon(lat1_rad, lon1_rad, lat2_rad, lon2_rad) ==
    IF isna(lat1_rad) \/ isna(lon1_rad) \/ isna(lat2_rad) \/ isna(lon2_rad)
    THEN NaN
    ELSE LET delta_lat == lat2_rad.n - lat1_rad.n
             delta_lon == lon2_rad.n + lon1_rad.n
         IN  CASE delta_lat = 0 /\ delta_lon = 0 -> Zero
               [] delta_lat # 0 /\ delta_lon = 0 -> Cell(AbsInt(delta_lat))
               [] delta_lat = 0 /\ delta_lon # 0 /\ lat1_rad.n = 0 -> Cell(AbsInt(delta_lon))

haversine_distance(lat1_rad, lon1_rad, lat2_rad, lon2_rad) ==
    IF isna(lat1_rad) \/ isna(lon1_rad) \/ isna(lat2_rad) \/ isna(lon2_rad)
    THEN NaN
    ELSE LET delta_lat == lat2_rad.n - lat1_rad.n
             delta_lon == lon2_rad.n - lon1_rad.n
         IN  CASE delta_lat = 0 /\ delta_lon = 0 -> Zero
                  \* a = 0, c = 2*atan2(0, 1) = 0
               [] delta_lat # 0 /\ delta_lon = 0 -> Cell(AbsInt(delta_lat))
                  \* a = sin^2(dlat/2), c = |dlat|
               [] delta_lat = 0 /\ delta_lon # 0 /\ lat1_rad.n = 0 -> Cell(AbsInt(delta_lon))
                  \* a = cos(0)^2 * sin^2(dlon/2), c = |dlon|

\* --------------------------------------------------------------- the input
VARIABLES
    file,             \* the spreadsheet found at file_path
    output_filename,  \* the optional report path, None when not given
    pc,               \* position in analyze_and_export_metrics
    df,               \* the loaded table, then sorted, then with step columns
    df_cleaned,       \* the rows of df that pass the distance filter
    stats,            \* the six raw reductions, NaN when nothing was reduced
    results,          \* the metrics record
    returned,         \* "pending", "None", "record" or "exception"
    report_file,      \* the file at output_filename: "absent", "partial", "written"
    log               \* the kinds of message printed so far

\* validate_and_parse_json (aa.py and parasynth.py)
VARIABLES
    variant,          \* the script whose validator runs: "aa" or "parasynth"
    text,             \* the model output handed to the validator, as tokens
    txt,              \* the stripped text, then the slice from the first { to the last }
    parsed,           \* the result of json.loads
    vpc,              \* position in validate_and_parse_json
    verdict           \* "pending", "returned" or the exception raised

\* combine_analysis_to_json (assembler.py)
VARIABLES
    asm_pc,                          \* position in combine_analysis_to_json
    terrain_classification_results,  \* the labels kept from the classifier
    classifier_calls,                \* calls of get_terrain_classification
    asm_return                       \* the document whose JSON text is returned

topo_vars == <<file, output_filename, pc, df, df_cleaned, stats, results, returned,
               report_file, log>>
llm_vars == <<variant, text, txt, parsed, vpc, verdict>>
asm_vars == <<asm_pc, terrain_classification_results, classifier_calls, asm_return>>

vars == <<file, output_filename, pc, df, df_cleaned, stats, results, returned,
          report_file, log, llm_vars, asm_vars>>

None == "None"
ReportName == "metrics.txt"

\* default column bindings: lon_col, lat_col, z_col, id_col
required_cols == {"x", "y", "ZCOORD", "ID"}

MIN_HORIZONTAL_STEP_M == 10

Positions == {0, 5, 15}
Elevations == 0 .. MaxElev
Ids == 1 .. MaxRows

EquatorPoints == {[x |-> Cell(p), y |-> Cell(0)] : p \in Positions}
MeridianPoints == {[x |-> Cell(0), y |-> Cell(p)] : p \in Positions}

RowsOn(points) ==
    {[ID |-> i, x |-> pt.x, y |-> pt.y, ZCOORD |-> Cell(z)] :
        i \in Ids, pt \in points, z \in Elevations}

\* tables in any row order, ids possibly repeated, every cell present
ShuffledTables == UNION {[1 .. n -> RowsOn(EquatorPoints)] : n \in 0 .. MaxRows}

\* tables already in id order 1..n
OrderedTables(points) ==
    UNION {{[i \in 1 .. n |-> [ID |-> i, x |-> pts[i].x, y |-> pts[i].y,
                                ZCOORD |-> Cell(zs[i])]] :
               pts \in [1 .. n -> points], zs \in [1 .. n -> Elevations]} :
           n \in 1 .. MaxRows}

\* a table with one empty cell, read by pandas as NaN
WithMissingCell(t) ==
    {[t EXCEPT ![i][c] = NaN] : i \in 1 .. Len(t), c \in {"x", "y", "ZCOORD"}}

\* tables surveyed in id order: on the meridian, on the equator, and on the
\* equator with one cell missing
SurveyTables ==
    OrderedTables(MeridianPoints) \cup OrderedTables(EquatorPoints)
        \cup UNION {WithMissingCell(t) : t \in OrderedTables(EquatorPoints)}

Tables == ShuffledTables \cup SurveyTables

UnreadableFiles ==
    {[status |-> s, columns |-> required_cols, rows |-> <<>>] : s \in {"missing", "unreadable"}}

\* sheets that lack at least one of the bound columns
BadSchemaFiles ==
    {[status |-> "ok", columns |-> c, rows |-> t] :
        c \in (SUBSET required_cols) \ {required_cols},
        t \in {u \in ShuffledTables : Len(u) <= 1}}

FilesOf(tables) == {[status |-> "ok", columns |-> required_cols, rows |-> t] : t \in tables}

Files == UnreadableFiles \cup BadSchemaFiles \cup FilesOf(Tables)

\* the calls that ask for a report
ReportedFiles ==
    UnreadableFiles \cup BadSchemaFiles \cup FilesOf(SurveyTables \cup {<<>>})

NoStats ==
    [max_slope_value |-> NaN, median_abs_slope |-> NaN, mean_abs_slope |-> NaN,
     max_vertical_step |-> NaN, median_vertical_step |-> NaN, mean_vertical_step |-> NaN]

NumericFields ==
    {"Max_Slope_Ratio_m_m", "Median_Absolute_Slope_m_m", "Mean_Absolute_Slope_m_m",
     "Max_Grade_Percent", "Median_Grade_Percent", "Mean_Grade_Percent",
     "Max_Grade_Angle_Degrees",
     "Max_Vertical_Step_m", "Median_Vertical_Step_m", "Mean_Vertical_Step_m"}

\* no record has been built
NoResults == [f \in NumericFields |-> NaN]

\* no validator runs
ValidatorIdle ==
    /\ variant = "none"
    /\ text = <<>>
    /\ txt = <<>>
    /\ parsed = <<>>
    /\ vpc = "idle"
    /\ verdict = "pending"

\* analyze_and_export_metrics is called on its own, not by the assembler
AssemblerIdle ==
    /\ asm_pc = "idle"
    /\ terrain_classification_results = <<>>
    /\ classifier_calls = 0
    /\ asm_return = [kind |-> "pending"]

Init ==
    /\ \/ file \in Files /\ output_filename = None
       \/ file \in ReportedFiles /\ output_filename = ReportName
    /\ pc = "load"
    /\ df = <<>>
    /\ df_cleaned = <<>>
    /\ stats = NoStats
    /\ results = NoResults
    /\ returned = "pending"
    /\ report_file = "absent"
    /\ log = {}
    /\ ValidatorIdle
    /\ AssemblerIdle

\* ------------------------------------------------------------ the function
\* mutant: a table of fewer than 2 rows is refused
SchemaInvalid_TooFewRows(columns, rows) ==
    Len(rows) < 2 \/ ~(\A col \in required_cols : col \in columns)

\* mutant: any() where the code has all()
SchemaInvalid_AnyColumn(columns, rows) ==
    Len(rows) = 0 \/ ~(\E col \in required_cols : col \in columns)

\* lines 48-52: df.empty or a required column is not in df.columns
SchemaInvalid(columns, rows) ==
    Len(rows) = 0 \/ ~(\A col \in required_cols : col \in columns)

\* lines 38-46: pd.read_excel, FileNotFoundError and any other Exception
ReadExcel ==
    /\ pc = "load"
    /\ IF file.status = "ok"
       THEN /\ df' = file.rows
            /\ pc' = "validate"
            /\ UNCHANGED <<returned, log>>
       ELSE /\ log' = log \cup {IF file.status = "missing" THEN "ERROR_not_found"
                                                          ELSE "ERROR_load"}
            /\ returned' = None
            /\ pc' = "done"
            /\ UNCHANGED df
    /\ UNCHANGED <<file, output_filename, df_cleaned, stats, results, report_file>>
    /\ UNCHANGED <<llm_vars, asm_vars>>

\* lines 48-52
CheckColumns ==
    /\ pc = "validate"
    /\ IF SchemaInvalid(file.columns, df)
       THEN /\ log' = log \cup {"ERROR_schema"}
            /\ returned' = None
            /\ pc' = "done"
       ELSE /\ pc' = "sort"
            /\ UNCHANGED <<returned, log>>
    /\ UNCHANGED <<file, output_filename, df, df_cleaned, stats, results, report_file>>
    /\ UNCHANGED <<llm_vars, asm_vars>>

\* mutant: the rows are left in file order
sort_values_Unsorted(rows) == {rows}

\* line 57: the arrangements of the rows that df.sort_values(by=id_col) may
\* return: ascending by id; the default sort kind is not stable, so rows
\* with equal ids come in any order
sort_values(rows) ==
    {[i \in 1 .. Len(rows) |-> rows[p[i]]] : p \in
        {q \in Permutations(1 .. Len(rows)) :
            \A i, j \in 1 .. Len(rows) : i < j => rows[q[i]].ID <= rows[q[j]].ID}}

SortValues ==
    /\ pc = "sort"
    /\ df' \in sort_values(df)
    /\ pc' = "steps"
    /\ UNCHANGED <<file, output_filename, df_cleaned, stats, results, returned,
                   report_file, log>>
    /\ UNCHANGED <<llm_vars, asm_vars>>

\* lines 59-61: Series.shift(1)
shift(rows, col, i) == IF i = 1 THEN NaN ELSE rows[i - 1][col]

\* line 74: Series.diff()
diff(rows, col, i) == IF i = 1 THEN NaN ELSE Sub(rows[i][col], rows[i - 1][col])

\* lines 59-74: the step columns of row i
StepColumns(rows, i) ==
    LET prev_lat == shift(rows, "y", i)
        prev_lon == shift(rows, "x", i)
    IN  [ID |-> rows[i].ID, x |-> rows[i].x, y |-> rows[i].y, ZCOORD |-> rows[i].ZCOORD,
         prev_lat |-> prev_lat, prev_lon |-> prev_lon,
         d_horizontal_m |-> haversine_distance(radians(prev_lat), radians(prev_lon),
                                               radians(rows[i].y), radians(rows[i].x)),
         dZ_m |-> diff(rows, "ZCOORD", i)]

Steps(rows) == [i \in 1 .. Len(rows) |-> StepColumns(rows, i)]

ComputeSteps ==
    /\ pc = "steps"
    /\ df' = Steps(df)
    /\ pc' = "filter"
    /\ UNCHANGED <<file, output_filename, df_cleaned, stats, results, returned,
                   report_file, log>>
    /\ UNCHANGED <<llm_vars, asm_vars>>

\* mutant: a strict comparison with the threshold
KeepStep_Strict(d_horizontal_m) == Less(Cell(MIN_HORIZONTAL_STEP_M), d_horizontal_m)

\* mutant: only the steps of distance 0 are filtered out
KeepStep_Positive(d_horizontal_m) == Less(Zero, d_horizontal_m)

\* line 78: the boolean mask of the filter
KeepStep(d_horizontal_m) == GreaterEq(d_horizontal_m, Cell(MIN_HORIZONTAL_STEP_M))

\* mutant: the slope keeps its sign
AbsoluteSlope_Signed(dZ_m, d_horizontal_m) == Div(dZ_m, d_horizontal_m)

\* line 81
AbsoluteSlope(dZ_m, d_horizontal_m) == Abs(Div(dZ_m, d_horizontal_m))

\* lines 76-81: the kept rows, each with its index label in df
Cleaned(rows) ==
    LET kept == SelectSeq([i \in 1 .. Len(rows) |-> i],
                          LAMBDA i : KeepStep(rows[i].d_horizontal_m))
    IN  [j \in 1 .. Len(kept) |->
            [index |-> kept[j],
             d_horizontal_m |-> rows[kept[j]].d_horizontal_m,
             dZ_m |-> rows[kept[j]].dZ_m,
             Absolute_Slope |-> AbsoluteSlope(rows[kept[j]].dZ_m,
                                              rows[kept[j]].d_horizontal_m)]]

FilterSteps ==
    /\ pc = "filter"
    /\ df_cleaned' = Cleaned(df)
    /\ pc' = "aggregate"
    /\ UNCHANGED <<file, output_filename, df, stats, results, returned,
                   report_file, log>>
    /\ UNCHANGED <<llm_vars, asm_vars>>

Column(rows, col) == [j \in 1 .. Len(rows) |-> rows[j][col]]

\* mutant: the vertical steps keep their sign
dZ_m_abs_Signed(rows) == [j \in 1 .. Len(rows) |-> rows[j].dZ_m]

\* line 91
dZ_m_abs(rows) == [j \in 1 .. Len(rows) |-> Abs(rows[j].dZ_m)]

\* lines 83-94
Reduce(cleaned) ==
    [max_slope_value |-> SeriesMax(Column(cleaned, "Absolute_Slope")),
     median_abs_slope |-> SeriesMedian(Column(cleaned, "Absolute_Slope")),
     mean_abs_slope |-> SeriesMean(Column(cleaned, "Absolute_Slope")),
     max_vertical_step |-> SeriesMax(dZ_m_abs(cleaned)),
     median_vertical_step |-> SeriesMedian(dZ_m_abs(cleaned)),
     mean_vertical_step |-> SeriesMean(dZ_m_abs(cleaned))]

Aggregate ==
    /\ pc = "aggregate"
    /\ stats' = Reduce(df_cleaned)
    /\ pc' = "compile"
    /\ UNCHANGED <<file, output_filename, df, df_cleaned, results, returned,
                   report_file, log>>
    /\ UNCHANGED <<llm_vars, asm_vars>>

\* mutant: the NaN guard is missing
nan_to_zero_Unguarded(v) == v

\* lines 99-105: v if not pd.isna(v) else 0.0
nan_to_zero(v) == IF isna(v) THEN Zero ELSE v

\* line 109: np.degrees(np.arctan(v)); arctan(0) = 0 exactly
degrees_arctan(v) == IF v.n = 0 THEN Zero ELSE [k |-> "atan", n |-> v.n, d |-> v.d]

\* lines 108, 110, 111
percent(v) == Times(v, 100)

\* mutant: the three mean values are not guarded
CompileResults_MeanUnguarded(s) ==
    LET max_slope_value == nan_to_zero(s.max_slope_value)
        median_abs_slope == nan_to_zero(s.median_abs_slope)
        max_vertical_step == nan_to_zero(s.max_vertical_step)
        median_vertical_step == nan_to_zero(s.median_vertical_step)
    IN  [Max_Slope_Ratio_m_m |-> max_slope_value,
         Median_Absolute_Slope_m_m |-> median_abs_slope,
         Mean_Absolute_Slope_m_m |-> s.mean_abs_slope,
         Max_Grade_Percent |-> percent(max_slope_value),
         Median_Grade_Percent |-> percent(median_abs_slope),
         Mean_Grade_Percent |-> percent(s.mean_abs_slope),
         Max_Grade_Angle_Degrees |-> degrees_arctan(max_slope_value),
         Max_Vertical_Step_m |-> max_vertical_step,
         Median_Vertical_Step_m |-> median_vertical_step,
         Mean_Vertical_Step_m |-> s.mean_vertical_step]

\* lines 96-125
CompileResults(s) ==
    LET max_slope_value == nan_to_zero(s.max_slope_value)
        median_abs_slope == nan_to_zero(s.median_abs_slope)
        mean_abs_slope == nan_to_zero(s.mean_abs_slope)
        max_vertical_step == nan_to_zero(s.max_vertical_step)
        median_vertical_step == nan_to_zero(s.median_vertical_step)
        mean_vertical_step == nan_to_zero(s.mean_vertical_step)
    IN  [Max_Slope_Ratio_m_m |-> max_slope_value,
         Median_Absolute_Slope_m_m |-> median_abs_slope,
         Mean_Absolute_Slope_m_m |-> mean_abs_slope,
         Max_Grade_Percent |-> percent(max_slope_value),
         Median_Grade_Percent |-> percent(median_abs_slope),
         Mean_Grade_Percent |-> percent(mean_abs_slope),
         Max_Grade_Angle_Degrees |-> degrees_arctan(max_slope_value),
         Max_Vertical_Step_m |-> max_vertical_step,
         Median_Vertical_Step_m |-> median_vertical_step,
         Mean_Vertical_Step_m |-> mean_vertical_step]

Compile ==
    /\ pc = "compile"
    /\ results' = CompileResults(stats)
    /\ pc' = "export"
    /\ UNCHANGED <<file, output_filename, df, df_cleaned, stats, returned,
                   report_file, log>>
    /\ UNCHANGED <<llm_vars, asm_vars>>

\* mutant: the failed write is not caught
WriteFailure_Escapes == [log |-> "WARNING_write", escapes |-> TRUE]

\* lines 153-154: except Exception around the write; what a failed write does
\* to the call
WriteFailure == [log |-> "WARNING_write", escapes |-> FALSE]

\* lines 145-154: the write succeeds, or fails before or after the file was
\* created
Export ==
    /\ pc = "export"
    /\ IF output_filename = None
       THEN /\ report_file' = report_file
            /\ log' = log \cup {"metrics_printed"}
            /\ pc' = "return"
            /\ UNCHANGED returned
       ELSE \E outcome \in {"written", "partial", "absent"} :
            /\ report_file' = outcome
            /\ IF outcome = "written"
               THEN /\ log' = log \cup {"metrics_printed", "Success"}
                    /\ pc' = "return"
                    /\ UNCHANGED returned
               ELSE IF WriteFailure.escapes
               THEN /\ log' = log \cup {"metrics_printed"}
                    /\ pc' = "done"
                    /\ returned' = "exception"
               ELSE /\ log' = log \cup {"metrics_printed", WriteFailure.log}
                    /\ pc' = "return"
                    /\ UNCHANGED returned
    /\ UNCHANGED <<file, output_filename, df, df_cleaned, stats, results>>
    /\ UNCHANGED <<llm_vars, asm_vars>>

\* line 156
Return ==
    /\ pc = "return"
    /\ returned' = "record"
    /\ pc' = "done"
    /\ UNCHANGED <<file, output_filename, df, df_cleaned, stats, results,
                   report_file, log>>
    /\ UNCHANGED <<llm_vars, asm_vars>>

Next ==
    \/ ReadExcel
    \/ CheckColumns
    \/ SortValues
    \/ ComputeSteps
    \/ FilterSteps
    \/ Aggregate
    \/ Compile
    \/ Export
    \/ Return

Spec == Init /\ [][Next]_vars

\* ------------------------------------------------ validate_and_parse_json
\* A text is a sequence of tokens: whitespace, brace-free prose (a sentence,
\* a code fence), an opening brace, a closing brace, or a member "key": value
\* of an object with its separators.  A value is [t, v]: t its JSON type
\* ("int", "float", "nan", "str", "null", "bool", "list", or "deep" for a
\* value nested beyond the interpreter's recursion limit); v is the integer
\* itself for "int", the number in tenths for "float", the length of the
\* stripped string for "str", 1/0 for true/false, and 0 otherwise.
Val(t, v) == [t |-> t, v |-> v]
NoVal == Val("none", 0)
Tok(k) == [tok |-> k, key |-> "", val |-> NoVal]
WS == Tok("ws")
PROSE == Tok("prose")
LB == Tok("lb")
RB == Tok("rb")
Member(key, val) == [tok |-> "member", key |-> key, val |-> val]

required_keys == {"Tread_Spacing", "Tire_Thickness", "Tire_OD", "Tread_Thickness", "reasoning"}
design_keys == <<"Tread_Spacing", "Tire_Thickness", "Tire_OD", "Tread_Thickness">>

FULL_TURN == 360

\* the values the model may give each key; Absent: the key is not in the object
Absent == Val("absent", 0)
SpacingValues ==
    {Absent, Val("int", 30), Val("int", 7), Val("int", 0), Val("int", -45),
     Val("float", 75), Val("float", 0), Val("nan", 0),
     Val("str", 5), Val("str", 0), Val("null", 0), Val("bool", 1), Val("bool", 0),
     Val("list", 0), Val("deep", 0)}
ThicknessValues == {Absent, Val("str", 4), Val("str", 0), Val("int", 12)}
DiameterValues == {Absent, Val("str", 6), Val("null", 0)}
TreadValues == {Val("str", 4), Val("str", 0)}
ReasoningValues == {Absent, Val("str", 40), Val("deep", 0)}

\* the tokens of an object with the given members, absent keys left out
ObjectText(sp, th, od, tr, re) ==
    <<LB>> \o SelectSeq(<<Member("Tread_Spacing", sp), Member("Tire_Thickness", th),
                          Member("Tire_OD", od), Member("Tread_Thickness", tr),
                          Member("reasoning", re)>>,
                        LAMBDA m : m.val # Absent)
         \o <<RB>>

Objects ==
    {ObjectText(sp, th, od, tr, re) :
        sp \in SpacingValues, th \in ThicknessValues, od \in DiameterValues,
        tr \in TreadValues, re \in ReasoningValues}

\* what surrounds the object: nothing, a fenced answer, stray braces
Prefixes == {<<>>, <<WS, PROSE, WS>>, <<PROSE, LB, PROSE, RB, WS>>}
Suffixes == {<<>>, <<WS, PROSE, WS>>, <<WS, RB>>}

\* outputs that hold no object
BareTexts == {<<>>, <<WS>>, <<PROSE>>, <<LB>>, <<RB>>, <<RB, PROSE, LB>>, <<LB, PROSE>>,
              <<WS, LB, RB, WS>>, <<LB, LB, RB>>}

Texts == BareTexts \cup {a \o o \o b : a \in Prefixes, o \in Objects, b \in Suffixes}

\* str.strip
RECURSIVE lstrip(_)
lstrip(s) == IF s # <<>> /\ Head(s) = WS THEN lstrip(Tail(s)) ELSE s
RECURSIVE rstrip(_)
rstrip(s) ==
    IF s # <<>> /\ s[Len(s)] = WS THEN rstrip(SubSeq(s, 1, Len(s) - 1)) ELSE s
strip(s) == rstrip(lstrip(s))

\* str.find and str.rfind of a brace: the 0-based position, -1 when absent
find(s, t) ==
    IF \E i \in 1 .. Len(s) : s[i] = t
    THEN (CHOOSE i \in 1 .. Len(s) : s[i] = t /\ \A j \in 1 .. i - 1 : s[j] # t) - 1
    ELSE -1
rfind(s, t) ==
    IF \E i \in 1 .. Len(s) : s[i] = t
    THEN (CHOOSE i \in 1 .. Len(s) : s[i] = t /\ \A j \in i + 1 .. Len(s) : s[j] # t) - 1
    ELSE -1

\* txt[first:last+1]
slice(s, first, last) == SubSeq(s, first + 1, last + 1)

\* dict assignment d[key] = val
Put(d, key, val) ==
    [k \in DOMAIN d \cup {key} |-> IF k = key THEN val ELSE d[k]]

\* json.loads of a text that starts with an opening brace, scanned from
\* token i on with the members read so far: the dict, or JSONDecodeError (a
\* ValueError) at the first token that cannot continue an object, or
\* RecursionError at a value nested too deep
RECURSIVE scan_object(_, _, _)
scan_object(s, i, d) ==
    IF i > Len(s) THEN [status |-> "JSONDecodeError", value |-> <<>>]
    ELSE CASE s[i].tok = "ws" -> scan_object(s, i + 1, d)
           [] s[i].tok = "member" ->
                IF s[i].val.t = "deep"
                THEN [status |-> "RecursionError", value |-> <<>>]
                ELSE scan_object(s, i + 1, Put(d, s[i].key, s[i].val))
           [] s[i].tok = "rb" ->
                IF i = Len(s) THEN [status |-> "dict", value |-> d]
                ELSE [status |-> "JSONDecodeError", value |-> <<>>]
           [] OTHER -> [status |-> "JSONDecodeError", value |-> <<>>]

json_loads(s) ==
    IF s # <<>> /\ s[1] = LB THEN scan_object(s, 2, <<>>)
    ELSE [status |-> "JSONDecodeError", value |-> <<>>]

\* dict.get
get(d, key) == IF key \in DOMAIN d THEN d[key] ELSE Val("null", 0)

\* isinstance(spacing, (int, float)): bool is a subclass of int, NaN is a float
is_number(val) == val.t \in {"int", "float", "nan", "bool"}

\* 360 % spacing raises ZeroDivisionError for 0, 0.0 and False
modulo_raises(val) == val.t \in {"int", "float", "bool"} /\ val.v = 0

\* 360 % spacing != 0, for a spacing the modulo is defined at
AbsVal(v) == IF v < 0 THEN -v ELSE v
not_divisor(val) ==
    CASE val.t = "nan" -> TRUE
      [] val.t = "float" -> (FULL_TURN * 10) % AbsVal(val.v) # 0
      [] OTHER -> FULL_TURN % AbsVal(val.v) # 0

InitValidate ==
    /\ variant \in {"aa", "parasynth"}
    /\ text \in Texts
    /\ txt = <<>>
    /\ parsed = <<>>
    /\ vpc = "extract"
    /\ verdict = "pending"
    /\ file = [status |-> "missing", columns |-> required_cols, rows |-> <<>>]
    /\ output_filename = None
    /\ pc = "idle"
    /\ df = <<>>
    /\ df_cleaned = <<>>
    /\ stats = NoStats
    /\ results = NoResults
    /\ returned = "pending"
    /\ report_file = "absent"
    /\ log = {}
    /\ AssemblerIdle

\* aa.py lines 97-111 (parasynth.py lines 100-108 are the same statements)
ExtractJson ==
    /\ vpc = "extract"
    /\ LET stripped == strip(text)
           first == find(stripped, LB)
           last == rfind(stripped, RB)
       IN  IF first = -1 \/ last = -1 \/ last <= first
           THEN /\ verdict' = "ValueError"
                /\ vpc' = "done"
                /\ txt' = stripped
           ELSE /\ txt' = slice(stripped, first, last)
                /\ vpc' = "loads"
                /\ UNCHANGED verdict
    /\ UNCHANGED <<variant, text, parsed, topo_vars, asm_vars>>

\* aa.py lines 115-117 (parasynth.py lines 110-112)
ParseJson ==
    /\ vpc = "loads"
    /\ LET r == json_loads(txt)
       IN  IF r.status = "dict"
           THEN /\ parsed' = r.value
                /\ vpc' = "keys"
                /\ UNCHANGED verdict
           ELSE /\ verdict' = IF r.status = "RecursionError" THEN "RecursionError"
                                                              ELSE "ValueError"
                /\ vpc' = "done"
                /\ UNCHANGED parsed
    /\ UNCHANGED <<variant, text, txt, topo_vars, asm_vars>>

\* aa.py lines 120-123 (parasynth.py lines 115-118)
CheckKeys ==
    /\ vpc = "keys"
    /\ IF required_keys \ DOMAIN parsed # {}
       THEN verdict' = "ValueError" /\ vpc' = "done"
       ELSE vpc' = "values" /\ UNCHANGED verdict
    /\ UNCHANGED <<variant, text, txt, parsed, topo_vars, asm_vars>>

\* aa.py lines 126-132: what the constraint check and the return end in
spacing_check(spacing) ==
    IF spacing.t # "null" /\ ~is_number(spacing) THEN "ValueError"
    ELSE IF spacing.t # "null" /\ modulo_raises(spacing) THEN "ZeroDivisionError"
    ELSE IF spacing.t # "null" /\ not_divisor(spacing) THEN "returned"    \* pass
    ELSE "returned"

CheckSpacing ==
    /\ vpc = "values"
    /\ variant = "aa"
    /\ verdict' = spacing_check(get(parsed, "Tread_Spacing"))
    /\ vpc' = "done"
    /\ UNCHANGED <<variant, text, txt, parsed, topo_vars, asm_vars>>

\* parasynth.py line 124: isinstance(value, str) and value.strip()
design_value_ok(value) == value.t = "str" /\ value.v > 0

\* parasynth.py lines 121-130
design_check(d) ==
    IF \A i \in 1 .. Len(design_keys) : design_value_ok(get(d, design_keys[i]))
    THEN "returned" ELSE "ValueError"

CheckDesignValues ==
    /\ vpc = "values"
    /\ variant = "parasynth"
    /\ verdict' = design_check(parsed)
    /\ vpc' = "done"
    /\ UNCHANGED <<variant, text, txt, parsed, topo_vars, asm_vars>>

NextValidate ==
    \/ ExtractJson
    \/ ParseJson
    \/ CheckKeys
    \/ CheckSpacing
    \/ CheckDesignValues

SpecValidate == InitValidate /\ [][NextValidate]_vars

\* ------------------------------------------------ combine_analysis_to_json
\* A label is the set of terrain words that occur in its text; a score is in
\* percent.  An item of the classifier's list carries the keys in its keys.
Label(words) == words
Item(words, score) == [label |-> Label(words), score |-> score, keys |-> {"label", "score"}]
Unlabelled(score) == [label |-> Label({}), score |-> score, keys |-> {"score"}]

\* what the transformers pipeline does with the image: it raises, or it
\* returns a list of items
PipelineOutcomes ==
    {[raises |-> TRUE, items |-> <<>>],
     [raises |-> FALSE, items |-> <<>>],
     [raises |-> FALSE, items |-> <<Item({"marshy"}, 47), Item({"rocky"}, 30)>>],
     [raises |-> FALSE, items |-> <<Item({"sandy"}, 80)>>],
     [raises |-> FALSE, items |-> <<Item({"rocky"}, 60), Item({"sandy"}, 20)>>],
     [raises |-> FALSE, items |-> <<Item({"rocky", "marshy"}, 55)>>],
     [raises |-> FALSE, items |-> <<Item({"grassy"}, 90)>>],
     [raises |-> FALSE, items |-> <<Item({"rocky"}, 60), Unlabelled(20)>>]}

\* terrain_identifier.py lines 10-16
get_terrain_classification(outcome) ==
    IF outcome.raises THEN <<>> ELSE outcome.items

\* mutant: the failed classification is not caught
ClassificationFailure_Escapes == [log |-> "ERROR_classification", escapes |-> TRUE]

\* assembler.py lines 45-46: except Exception around the classification
ClassificationFailure == [log |-> "ERROR_classification", escapes |-> FALSE]

\* assembler.py line 44: item['label'] or item['score'] raises KeyError
comprehension_raises(items) ==
    \E i \in 1 .. Len(items) : ~({"label", "score"} \subseteq items[i].keys)

\* assembler.py line 44
comprehension(items) ==
    [i \in 1 .. Len(items) |-> [label |-> items[i].label, score |-> items[i].score]]

Unknown == Label({"unknown"})

\* assembler.py line 54
top_terrain(labels) == IF labels # <<>> THEN labels[1].label ELSE Unknown

\* assembler.py lines 59-63
tire_tread_suggestion(terrain) ==
    IF "marshy" \in terrain \/ "sandy" \in terrain
    THEN "Deep, Aggressive Tread (Low Ground Pressure)"
    ELSE IF "rocky" \in terrain
    THEN "Tough, Puncture-Resistant Tread (Durability)"
    ELSE "All-Terrain Tread"

\* assembler.py line 38
failure_document == [analysis |-> [error |-> "Quantitative metrics failed"]]

\* assembler.py lines 49-90
final_data(quantitative_metrics, labels) ==
    [quantitative_metrics |->
        [mean_grade_percent |-> quantitative_metrics.Mean_Grade_Percent,
         median_grade_percent |-> quantitative_metrics.Median_Grade_Percent,
         max_grade_percent |-> quantitative_metrics.Max_Grade_Percent,
         max_grade_angle_degrees |-> quantitative_metrics.Max_Grade_Angle_Degrees,
         mean_absolute_slope_m_m |-> quantitative_metrics.Mean_Absolute_Slope_m_m,
         median_absolute_slope_m_m |-> quantitative_metrics.Median_Absolute_Slope_m_m,
         max_slope_ratio_m_m |-> quantitative_metrics.Max_Slope_Ratio_m_m,
         mean_vertical_step_m |-> quantitative_metrics.Mean_Vertical_Step_m,
         median_vertical_step_m |-> quantitative_metrics.Median_Vertical_Step_m,
         max_vertical_step_m |-> quantitative_metrics.Max_Vertical_Step_m],
     qualitative_metrics_full |-> labels,
     design_recommendations |->
        [robust_wheel_diameter_m |-> Times(quantitative_metrics.Median_Vertical_Step_m, 2),
         power_sizing_typical_grade_percent_mean |-> quantitative_metrics.Mean_Grade_Percent,
         power_sizing_robust_grade_percent_median |-> quantitative_metrics.Median_Grade_Percent,
         max_safety_check_grade_percent |-> quantitative_metrics.Max_Grade_Percent,
         max_safety_check_wheel_diameter_m |-> Times(quantitative_metrics.Max_Vertical_Step_m, 2),
         primary_terrain_type |-> top_terrain(labels),
         tire_tread_suggestion |-> tire_tread_suggestion(top_terrain(labels))]]

\* the elevation files the assembler is given
InitAssemble ==
    /\ file \in ReportedFiles
    /\ output_filename = None
    /\ pc = "idle"
    /\ df = <<>>
    /\ df_cleaned = <<>>
    /\ stats = NoStats
    /\ results = NoResults
    /\ returned = "pending"
    /\ report_file = "absent"
    /\ log = {}
    /\ ValidatorIdle
    /\ asm_pc = "call"
    /\ terrain_classification_results = <<>>
    /\ classifier_calls = 0
    /\ asm_return = [kind |-> "pending"]

\* assembler.py lines 30-33: the call of analyze_and_export_metrics
CallAnalyze ==
    /\ asm_pc = "call"
    /\ pc = "idle"
    /\ pc' = "load"
    /\ output_filename' = None
    /\ asm_pc' = "analyze"
    /\ UNCHANGED <<file, df, df_cleaned, stats, results, returned, report_file, log>>
    /\ UNCHANGED <<llm_vars, terrain_classification_results, classifier_calls, asm_return>>

\* assembler.py lines 35-38: not quantitative_metrics holds of None, not of
\* the record, which is a dict of twelve keys
CheckMetrics ==
    /\ asm_pc = "analyze"
    /\ pc = "done"
    /\ IF returned = None
       THEN /\ asm_return' = failure_document
            /\ asm_pc' = "done"
       ELSE /\ asm_pc' = "classify"
            /\ UNCHANGED asm_return
    /\ UNCHANGED <<topo_vars, llm_vars, terrain_classification_results, classifier_calls>>

\* assembler.py lines 41-46
Classify ==
    /\ asm_pc = "classify"
    /\ classifier_calls' = classifier_calls + 1
    /\ \E outcome \in PipelineOutcomes :
          LET items == get_terrain_classification(outcome)
              printed == IF outcome.raises THEN {"ERROR_in_image_classification"} ELSE {}
          IN  IF ~comprehension_raises(items)
              THEN /\ terrain_classification_results' = comprehension(items)
                   /\ log' = log \cup printed
                   /\ asm_pc' = "derive"
              ELSE IF ClassificationFailure.escapes
              THEN /\ asm_pc' = "raised"
                   /\ log' = log \cup printed
                   /\ UNCHANGED terrain_classification_results
              ELSE /\ log' = log \cup printed \cup {ClassificationFailure.log}
                   /\ asm_pc' = "derive"
                   /\ UNCHANGED terrain_classification_results
    /\ UNCHANGED <<file, output_filename, pc, df, df_cleaned, stats, results, returned,
                   report_file>>
    /\ UNCHANGED <<llm_vars, asm_return>>

\* assembler.py lines 49-95: json.dumps of final_data
DumpFinalData ==
    /\ asm_pc = "derive"
    /\ asm_return' = final_data(results, terrain_classification_results)
    /\ asm_pc' = "done"
    /\ UNCHANGED <<topo_vars, llm_vars, terrain_classification_results, classifier_calls>>

NextAssemble ==
    \/ CallAnalyze
    \/ ReadExcel
    \/ CheckColumns
    \/ SortValues
    \/ ComputeSteps
    \/ FilterSteps
    \/ Aggregate
    \/ Compile
    \/ Export
    \/ Return
    \/ CheckMetrics
    \/ Classify
    \/ DumpFinalData

SpecAssemble == InitAssemble /\ [][NextAssemble]_vars

\* lines 56-125 on a table in id order: the record built from it
MetricsOf(sorted) == CompileResults(Reduce(Cleaned(Steps(sorted))))

\* lines 56-125: the records a call may return for a table that passed the checks
Outcomes(rows) == {MetricsOf(t) : t \in sort_values(rows)}

\* ------------------------------------------------------------------ claims
Loaded == file.status = "ok"
HasAllColumns == required_cols \subseteq file.columns
DistinctIds(rows) ==
    \A i, j \in 1 .. Len(rows) : i # j => rows[i].ID # rows[j].ID
AllZero(rec) == \A f \in NumericFields : rec[f] = Zero

\* C1: a call whose source cannot be loaded, whose table is empty or whose
\* table lacks a bound column never gets past the checks: it builds no record,
\* writes no report even when output_filename is given, lets no exception
\* escape and ends returning None.
C1_FailureSignal ==
    (~Loaded \/ Len(file.rows) = 0 \/ ~HasAllColumns) =>
        /\ pc \in {"load", "validate", "done"}
        /\ results = NoResults
        /\ report_file = "absent"
        /\ returned \in {"pending", None}
        /\ pc = "done" => returned = None

C1_Witness ==
    /\ pc = "done"
    /\ Loaded
    /\ Len(file.rows) = 1
    /\ file.columns = required_cols \ {"ZCOORD"}
    /\ output_filename = ReportName
    /\ returned = None
    /\ "ERROR_schema" \in log

Permuted(rows, q) == [i \in 1 .. Len(rows) |-> rows[q[i]]]

\* C2: when the ids of the table are pairwise distinct, every permutation of
\* its rows returns the record this call returned.
C2_OrderIndependent ==
    (pc = "done" /\ returned = "record" /\ DistinctIds(file.rows)) =>
        \A q \in Permutations(1 .. Len(file.rows)) :
            Outcomes(Permuted(file.rows, q)) = {results}

\* a shuffled table whose record differs from the one its raw row order gives
C2_Witness ==
    /\ pc = "done"
    /\ returned = "record"
    /\ Len(file.rows) = 3
    /\ DistinctIds(file.rows)
    /\ file.rows[1].ID > file.rows[2].ID
    /\ results # MetricsOf(file.rows)
    /\ results.Max_Slope_Ratio_m_m # Zero

\* the states in which the six reductions have been taken
Reduced == pc \in {"compile", "export", "return"} \/ (pc = "done" /\ returned = "record")

Threshold == Cell(MIN_HORIZONTAL_STEP_M)

\* the adjacent pair (i-1, i) of the id-sorted rows: its great-circle
\* distance, its vertical delta and its absolute slope, from the cells
PairDistance(rows, i) ==
    haversine_distance(radians(rows[i - 1].y), radians(rows[i - 1].x),
                       radians(rows[i].y), radians(rows[i].x))
PairDelta(rows, i) == Sub(rows[i].ZCOORD, rows[i - 1].ZCOORD)
PairSlope(rows, i) == Div(Abs(PairDelta(rows, i)), PairDistance(rows, i))

\* the pairs whose distance is at least 0.01 m
SurvivingPairs(rows) ==
    {i \in 2 .. Len(rows) : GreaterEq(PairDistance(rows, i), Threshold)}

Ascending(S, n) == SelectSeq([i \in 1 .. n |-> i], LAMBDA i : i \in S)

SlopesOver(rows, S) ==
    LET idx == Ascending(S, Len(rows))
    IN  [j \in 1 .. Len(idx) |-> PairSlope(rows, idx[j])]
VerticalStepsOver(rows, S) ==
    LET idx == Ascending(S, Len(rows))
    IN  [j \in 1 .. Len(idx) |-> Abs(PairDelta(rows, idx[j]))]

KeptIndex == {df_cleaned[j].index : j \in 1 .. Len(df_cleaned)}

Remove(rows, k) == SubSeq(rows, 1, k - 1) \o SubSeq(rows, k + 1, Len(rows))

AllCellsPresent(rows) ==
    \A i \in 1 .. Len(rows) : ~isna(rows[i].x) /\ ~isna(rows[i].y) /\ ~isna(rows[i].ZCOORD)

\* the step (k-1, k) is the one step of the three-point sequence below 0.01 m
OnlyShortStep(rows, k) ==
    /\ Len(rows) = 3
    /\ k \in 2 .. 3
    /\ Less(PairDistance(rows, k), Threshold)
    /\ \A i \in (2 .. 3) \ {k} : ~Less(PairDistance(rows, i), Threshold)

C6_FewRowsDegenerate ==
    pc = "done" =>
        /\ (Loaded /\ HasAllColumns /\ Len(file.rows) < 2) =>
               (returned = "record" /\ AllZero(results))
        /\ returned = None => (~Loaded \/ ~HasAllColumns)

\* C6 amended: a loaded table with all four columns and exactly one row
\* returns a record of zeros; None is returned exactly for an unreadable
\* source, a missing column or a table with no row.
C6_SingleRowDegenerate ==
    pc = "done" =>
        /\ (Loaded /\ HasAllColumns /\ Len(file.rows) = 1) =>
               (returned = "record" /\ AllZero(results))
        /\ returned = None <=> (~Loaded \/ ~HasAllColumns \/ Len(file.rows) = 0)

C6_Witness ==
    /\ pc = "done"
    /\ Loaded /\ HasAllColumns
    /\ Len(file.rows) = 1
    /\ file.rows[1].ZCOORD = Cell(2)
    /\ file.rows[1].x = Cell(15)
    /\ Len(df_cleaned) = 0
    /\ returned = "record"
    /\ AllZero(results)

Defined(v) == v.k \in {"num", "atan"} /\ v.d > 0

\* C7: every numeric field of a built record is a defined number, also when
\* cells of the table are missing and a reduction ran over no defined value.
C7_NoNaNReturned ==
    (pc \in {"export", "return"} \/ returned = "record") =>
        \A f \in NumericFields : Defined(results[f])

\* the middle elevation is missing: both steps survive the filter and both
\* slopes are undefined
C7_Witness ==
    /\ pc = "done"
    /\ returned = "record"
    /\ Len(df) = 3
    /\ isna(df[2].ZCOORD)
    /\ Len(df_cleaned) = 2
    /\ \A j \in 1 .. 2 : isna(df_cleaned[j].Absolute_Slope)
    /\ isna(stats.mean_abs_slope) /\ isna(stats.max_vertical_step)
    /\ AllZero(results)

\* the call asked for a report and the write did not succeed
WriteFailed ==
    output_filename # None /\ "metrics_printed" \in log /\ "Success" \notin log

\* C8: when the report cannot be written the call still returns the record
\* the table yields without output_filename; the failure is logged as a
\* warning and no exception escapes.
C8_WriteFailureHarmless ==
    (pc = "done" /\ WriteFailed) =>
        /\ returned = "record"
        /\ Outcomes(file.rows) = {results}
        /\ "WARNING_write" \in log

C8_Witness ==
    /\ pc = "done"
    /\ WriteFailed
    /\ report_file = "partial"
    /\ returned = "record"
    /\ results.Max_Slope_Ratio_m_m = Num(2, 15)
    /\ "WARNING_write" \in log

Coincident(rows, i) ==
    /\ ~isna(rows[i].x) /\ ~isna(rows[i].y)
    /\ rows[i].x = rows[i - 1].x
    /\ rows[i].y = rows[i - 1].y

Filtered == pc \in {"aggregate", "compile", "export", "return"}
                \/ (pc = "done" /\ returned = "record")

MemberAt(s) == {i \in 1 .. Len(s) : s[i].tok = "member"}
ObjectOf(s) ==
    [k \in {s[i].key : i \in MemberAt(s)} |->
        s[CHOOSE i \in MemberAt(s) : s[i].key = k].val]

\* the output holds one JSON object of ordinary nesting and no other brace
HoldsOneObject(s) ==
    /\ Cardinality({i \in 1 .. Len(s) : s[i] = LB}) = 1
    /\ Cardinality({i \in 1 .. Len(s) : s[i] = RB}) = 1
    /\ \A i \in MemberAt(s) :
          /\ s[i].val.t # "deep"
          /\ \E a \in 1 .. i - 1 : s[a] = LB /\ \A j \in a + 1 .. i - 1 : s[j].tok = "member"
          /\ \E b \in i + 1 .. Len(s) : s[b] = RB /\ \A j \in i + 1 .. b - 1 : s[j].tok = "member"

NumericSpacing(s) ==
    /\ required_keys \subseteq DOMAIN ObjectOf(s)
    /\ ObjectOf(s)["Tread_Spacing"].t \in {"int", "float"}

\* C11: in aa.py the divisibility check is disabled: every output that holds
\* a JSON object with the five required keys and a numeric Tread_Spacing is
\* returned parsed, without an exception, whatever the number is.
C11_SpacingCheckDisabled ==
    (variant = "aa" /\ vpc = "done" /\ HoldsOneObject(text) /\ NumericSpacing(text))
        => (verdict = "returned" /\ parsed = ObjectOf(text))

NonBlankString(val) == val.t = "str" /\ val.v >= 1

WellFormedDesign(d) ==
    /\ required_keys \subseteq DOMAIN d
    /\ \A k \in {"Tread_Spacing", "Tire_Thickness", "Tire_OD", "Tread_Thickness"} :
          NonBlankString(d[k])

\* C13: in parasynth.py validate_and_parse_json either returns an object with
\* all five keys whose four design values are non-blank strings, or raises
\* ValueError; no other object is returned and no other error is raised, for
\* every input text.
C13_ValidOrValueError ==
    (variant = "parasynth" /\ vpc = "done") =>
        \/ verdict = "returned" /\ WellFormedDesign(parsed)
        \/ verdict = "ValueError"

\* ---------------------------------------------------------------- C14
\* the table with the order of its ids reversed: the row of the smallest id
\* gets the largest
Reversed(rows) == [i \in 1 .. Len(rows) |-> [rows[i] EXCEPT !.ID = MaxRows + 1 - @]]

LessEq(a, b) == a.k = "num" /\ b.k = "num" /\ a.n * b.d <= b.n * a.d

====
